---- MODULE Spec2Model ----
(***************************************************************************)
(* Model of the Sazka bonus calendar notifier.                             *)
(*                                                                         *)
(*   SpecPushover  PushoverClient (src/src/pushover.py): construction with *)
(*                 credential validation, Message construction and field   *)
(*                 assignment, send_message.                               *)
(*   SpecSazka     SazkaClient (src/src/sazka.py): _login, _get_url_content*)
(*                 and get_calendars.                                      *)
(*   SpecExtract   SazkaClient._get_calendar_bonuses and the start/end     *)
(*                 derivation of _get_calendar, applied to page contents.  *)
(*   SpecMain      main() (src/src/main.py) run repeatedly over the        *)
(*                 persisted notification history.                         *)
(*                                                                         *)
(* Python exceptions are modelled as result records [kind, msg]; kind "ok" *)
(* is a normal return.  Strings that the code transforms (error messages)  *)
(* are sequences of one-character strings.                                 *)
(***************************************************************************)
EXTENDS Integers, Sequences, FiniteSets, TLC

VARIABLES
    \* ---- PushoverClient / Message
    pclient,        \* the constructed PushoverClient (ready, _api_token, _user_key)
    pres,           \* outcome of the last PushoverClient(...) call
    vresp,          \* the validation endpoint's answer to that call
    msg,            \* the Message object held by the caller
    mres,           \* outcome of the last Message(...) call
    sent,           \* the form payload last posted to MESSAGES_URL
    sres,           \* outcome of the last send_message call
    \* ---- SazkaClient
    session,        \* the client's _player_id / _session_token attributes
    lres,           \* outcome of the last SazkaClient(...) call
    lresp,          \* the login endpoint's answer to that call
    cookies,        \* cookies of the request sent by the last _get_url_content call
    fres,           \* outcome of the last _get_url_content call
    gpc,            \* position inside get_calendars
    marker,         \* for each page, whether it holds section.bonuses-calendar
    urls,           \* bonus_urls
    idx,            \* index of the url being processed
    calendars,      \* calendars (the url of each Calendar appended)
    gres,           \* outcome of get_calendars
    \* ---- extraction of one calendar page
    page,           \* the page: div#bonuses-grid, its bonus list, the popup feed
    epc,            \* position inside _get_calendar
    bonuses,        \* calendar.bonuses
    calendar,       \* calendar.start_datetime / calendar.end_datetime
    eres,           \* outcome of the extraction
    \* ---- main
    file,           \* whether the metadata file exists on disk
    notification_list,  \* main's notification_list (bonus ids)
    mcalendars,     \* the calendars main iterates over
    ci, bi,         \* indices of the calendar and of the bonus being processed
    mpc,            \* position inside main
    mainres,        \* the error that ended the last finished run of main
    run,            \* number of runs of main started
    sends           \* per bonus id, the number of successful send_message calls

pvars == <<pclient, pres, vresp, msg, mres, sent, sres>>
svars == <<session, lres, lresp, cookies, fres, gpc, marker, urls, idx, calendars, gres>>
evars == <<page, epc, bonuses, calendar, eres>>
mvars == <<file, notification_list, mcalendars, ci, bi, mpc, mainres, run, sends>>
vars == <<pvars, svars, evars, mvars>>

\* ------------------------------------------------------------------ bounds

MaxErrors == 2      \* length of the "errors" list of a response body
MaxUrls == 3        \* number of links found on the bonus listing page
MaxEntries == 3     \* length of the page-embedded bonus list
MaxPopups == 2      \* length of the popup feed
MaxDay == 2         \* days the end datetimes range over
MaxRuns == 2        \* runs of main
MaxCalendars == 2   \* calendars returned to main
MaxBonuses == 2     \* bonuses per calendar handed to main

\* -------------------------------------------------------------- results

Ok == [kind |-> "ok", msg |-> <<>>]
NoResult == [kind |-> "none", msg |-> <<>>]
Raise(kind, m) == [kind |-> kind, msg |-> m]

RECURSIVE SeqsUpTo(_, _)
SeqsUpTo(S, n) ==
    IF n = 0 THEN {<<>>}
    ELSE LET shorter == SeqsUpTo(S, n - 1)
         IN  shorter \cup {Append(s, x) : s \in {t \in shorter : Len(t) = n - 1}, x \in S}

\* ------------------------------------------------------------- strings

LowerAlpha == <<"a","b","c","d","e","f","g","h","i","j","k","l","m",
                "n","o","p","q","r","s","t","u","v","w","x","y","z">>
UpperAlpha == <<"A","B","C","D","E","F","G","H","I","J","K","L","M",
                "N","O","P","Q","R","S","T","U","V","W","X","Y","Z">>

Upper(c) ==
    IF \E i \in 1..26 : LowerAlpha[i] = c
    THEN UpperAlpha[CHOOSE i \in 1..26 : LowerAlpha[i] = c]
    ELSE c

Lower(c) ==
    IF \E i \in 1..26 : UpperAlpha[i] = c
    THEN LowerAlpha[CHOOSE i \in 1..26 : UpperAlpha[i] = c]
    ELSE c

\* str.capitalize(): first character upper-cased, the rest lower-cased.
Capitalize(s) ==
    [i \in 1..Len(s) |-> IF i = 1 THEN Upper(s[i]) ELSE Lower(s[i])]

\* ============================================================ pushover.py

TokenLength == 30

TokenA == "aaaaaaaaaaaaaaaaaaaaaaaaaaaaaa"
TokenB == "bbbbbbbbbbbbbbbbbbbbbbbbbbbbbb"
UserA == "uuuuuuuuuuuuuuuuuuuuuuuuuuuuuu"
UserB == "vvvvvvvvvvvvvvvvvvvvvvvvvvvvvv"
TooShort == "short"
\* The credentials a client is constructed with.
ClientTokens == {TokenA, TooShort}
ClientUserKeys == {UserA, TooShort}

\* Error messages a provider may report.
ErrorMessages == {<<"u", "K">>, <<"T", "o">>}
ErrorLists == SeqsUpTo(ErrorMessages, MaxErrors)

\* "Failed to get the error message"
DefaultErrorMessage ==
    <<"F","a","i","l","e","d"," ","t","o"," ","g","e","t"," ","t","h","e"," ",
      "e","r","r","o","r"," ","m","e","s","s","a","g","e">>

\* A response body: not JSON at all, JSON that is no object, or a JSON object
\* with an optional "status" and an "errors" list (absent = empty); a body of
\* status 1 reports no errors.
NoBody == [kind |-> "notjson", hasStatus |-> FALSE, status |-> 0, errors |-> <<>>]
PBodies ==
    {NoBody, [NoBody EXCEPT !.kind = "nonobject"]}
    \cup {[NoBody EXCEPT !.kind = "object", !.hasStatus = TRUE, !.status = 1]}
    \cup {[kind |-> "object", hasStatus |-> TRUE, status |-> 0, errors |-> e] :
            e \in ErrorLists}
    \cup {[kind |-> "object", hasStatus |-> FALSE, status |-> 0, errors |-> e] :
            e \in ErrorLists}

\* What requests.post yields: a transport failure (an exception, no response)
\* or a response with an HTTP status and a body.
NoResponse == [transport |-> "none", http |-> 0, body |-> NoBody]
TransportFailure == [transport |-> "fail", http |-> 0, body |-> NoBody]
HttpStatuses == {200, 400}
PResponses ==
    {TransportFailure}
    \cup {[transport |-> "ok", http |-> h, body |-> b] : h \in HttpStatuses, b \in PBodies}

\* PushoverClient._validate_response
ValidateResponse(resp) ==
    LET content == resp.body
        status == IF content.hasStatus THEN content.status ELSE 0
        error_message == IF content.errors = <<>> THEN DefaultErrorMessage
                         ELSE Head(content.errors)
    IN  IF content.kind = "notjson" THEN Raise("JSONDecodeError", <<>>)
        ELSE IF content.kind = "nonobject" THEN Raise("AttributeError", <<>>)
        ELSE IF status = 0 THEN Raise("ApiError", Capitalize(error_message))
        ELSE Ok

\* response.raise_for_status()
RaiseForStatus(resp) ==
    IF resp.http >= 400 /\ resp.http < 600 THEN Raise("RequestException", <<>>) ELSE Ok

\* (mutant) the HTTP status checked before the body.
PostOutcomeStatusFirst(resp) ==
    IF resp.transport = "fail" THEN Raise("RequestException", <<>>)
    ELSE IF RaiseForStatus(resp).kind # "ok" THEN RaiseForStatus(resp)
    ELSE ValidateResponse(resp)

\* The try body shared by _validate_secrets and send_message:
\*   response = requests.post(...); self._validate_response(response);
\*   response.raise_for_status()
PostOutcome(resp) ==
    LET validated == ValidateResponse(resp)
    IN  IF resp.transport = "fail" THEN Raise("RequestException", <<>>)
        ELSE IF validated.kind # "ok" THEN validated
        ELSE RaiseForStatus(resp)

\* The Validate model of _validate_secrets: both strings exactly 30 long.
ValidateFormat(token, user) ==
    Len(token) = TokenLength /\ Len(user) = TokenLength

\* (mutant) the provider's ApiError not turned into AuthError.
ValidateSecretsNoAuthError(token, user, resp) ==
    LET posted == PostOutcome(resp)
    IN  IF ~ValidateFormat(token, user) THEN Raise("ValidationError", <<>>)
        ELSE IF posted.kind = "RequestException" THEN Raise("ConnectionError", <<>>)
        ELSE posted

\* PushoverClient._validate_secrets
ValidateSecrets(token, user, resp) ==
    LET posted == PostOutcome(resp)
    IN  IF ~ValidateFormat(token, user) THEN Raise("ValidationError", <<>>)
        ELSE IF posted.kind = "RequestException" THEN Raise("ConnectionError", <<>>)
        ELSE IF posted.kind = "ApiError" THEN Raise("AuthError", posted.msg)
        ELSE posted

NoClient == [ready |-> FALSE, api_token |-> "", user_key |-> ""]

\* PushoverClient.__init__: the object exists for the caller only when
\* _validate_secrets returns.
Construct(api_token, user_key, resp) ==
    /\ ~pclient.ready
    /\ pres' = ValidateSecrets(api_token, user_key, resp)
    /\ vresp' = IF ValidateFormat(api_token, user_key) THEN resp ELSE NoResponse
    /\ pclient' = IF pres'.kind = "ok"
                  THEN [ready |-> TRUE, api_token |-> api_token, user_key |-> user_key]
                  ELSE NoClient
    /\ UNCHANGED <<msg, mres, sent, sres>>
    /\ UNCHANGED <<svars, evars, mvars>>

\* ---- Message

\* A token/user field: None, a SecretStr, or a plain str assigned later.
None == [kind |-> "none", val |-> ""]
Secret(v) == [kind |-> "secret", val |-> v]
Plain(v) == [kind |-> "plain", val |-> v]

NoMessage == [exists |-> FALSE, token |-> None, user |-> None,
              html |-> FALSE, monospace |-> FALSE]

\* What a caller can pass as token / user to Message(...).
CallerTokens == {None, Secret(TokenB), Secret(TooShort)}
CallerUsers == {None, Secret(UserB)}

\* Field constraints of token / user: min_length = max_length = 30.
FieldValid(f) == f.kind = "none" \/ Len(f.val) = TokenLength

\* Message.check_html_and_monospace
CheckHtmlAndMonospace(html, monospace) == ~(html /\ monospace)

\* Message(...): field validation, then the model validator.  fits: the other
\* fields (message, title, priority, ...) satisfy their constraints.  As in
\* main.py, the client is constructed before any Message is.
NewMessage(token, user, html, monospace, fits) ==
    LET valid == /\ FieldValid(token) /\ FieldValid(user) /\ fits
                 /\ CheckHtmlAndMonospace(html, monospace)
    IN  /\ pclient.ready
        /\ mres' = IF valid THEN Ok ELSE Raise("ValidationError", <<>>)
        /\ msg' = IF valid
                  THEN [exists |-> TRUE, token |-> token, user |-> user,
                        html |-> html, monospace |-> monospace]
                  ELSE msg
        /\ UNCHANGED <<pclient, pres, vresp, sent, sres>>
    /\ UNCHANGED <<svars, evars, mvars>>

\* message.<field> = value.  Message sets no validate_assignment: nothing is
\* validated.
AssignFlag(field, value) ==
    /\ msg.exists
    /\ msg' = IF field = "html" THEN [msg EXCEPT !.html = value]
              ELSE [msg EXCEPT !.monospace = value]
    /\ UNCHANGED <<pclient, pres, vresp, mres, sent, sres>>
    /\ UNCHANGED <<svars, evars, mvars>>

AssignSecret(field, value) ==
    /\ msg.exists
    /\ msg' = IF field = "token" THEN [msg EXCEPT !.token = value]
              ELSE [msg EXCEPT !.user = value]
    /\ UNCHANGED <<pclient, pres, vresp, mres, sent, sres>>
    /\ UNCHANGED <<svars, evars, mvars>>

\* ---- send_message

\* (mutant) the credentials injected only where the caller set none.
InjectCredentialsIfUnset(m, client) ==
    [m EXCEPT !.token = IF m.token.kind = "none" THEN Plain(client.api_token) ELSE m.token,
              !.user = IF m.user.kind = "none" THEN Plain(client.user_key) ELSE m.user]

\* message.token = self._api_token; message.user = self._user_key
InjectCredentials(m, client) ==
    [m EXCEPT !.token = Plain(client.api_token), !.user = Plain(client.user_key)]

\* A field of model_dump() as requests form-encodes it: a None value is left
\* out, a SecretStr is written masked, a str as it is.
Masked == "**********"
FormValue(f) ==
    IF f.kind = "none" THEN "" ELSE IF f.kind = "secret" THEN Masked ELSE f.val

\* serialize_html / serialize_monospace
SerializeFlag(value) == IF value THEN 1 ELSE 0

NoPayload == [posted |-> FALSE, token |-> "", user |-> "", html |-> 0, monospace |-> 0,
              given_token |-> None, given_user |-> None]

\* data=message.model_dump(); given_* keep what the Message held on entry.
Payload(m, given) ==
    [posted |-> TRUE, token |-> FormValue(m.token), user |-> FormValue(m.user),
     html |-> SerializeFlag(m.html), monospace |-> SerializeFlag(m.monospace),
     given_token |-> given.token, given_user |-> given.user]

\* PushoverClient.send_message (the Limits value returned is not kept).
SendMessage(resp) ==
    /\ pclient.ready
    /\ msg.exists
    /\ msg' = InjectCredentials(msg, pclient)
    /\ sent' = Payload(InjectCredentials(msg, pclient), msg)
    /\ sres' = LET posted == PostOutcome(resp)
               IN  IF posted.kind = "RequestException"
                   THEN Raise("ConnectionError", <<>>)
                   ELSE posted
    /\ UNCHANGED <<pclient, pres, vresp, mres>>
    /\ UNCHANGED <<svars, evars, mvars>>

PushoverInit ==
    /\ pclient = NoClient
    /\ pres = NoResult
    /\ vresp = NoResponse
    /\ msg = NoMessage
    /\ mres = NoResult
    /\ sent = NoPayload
    /\ sres = NoResult

PushoverNext ==
    \/ \E t \in ClientTokens, u \in ClientUserKeys, resp \in PResponses :
         Construct(t, u, resp)
    \/ \E t \in CallerTokens, u \in CallerUsers, h \in BOOLEAN, m \in BOOLEAN, fits \in BOOLEAN :
         NewMessage(t, u, h, m, fits)
    \/ \E field \in {"html", "monospace"}, value \in BOOLEAN : AssignFlag(field, value)
    \/ \E value \in {None, Plain(TokenB)} : AssignSecret("token", value)
    \/ \E resp \in PResponses : SendMessage(resp)

\* ============================================================== sazka.py

PyNone == "None"
PlayerId == "p1"
SessionToken == "t1"

\* A login response body: not JSON, JSON that is no object, or a JSON object in
\* which each of "playerId" and "sessionToken" is absent, null or a value.
NoLoginBody == [kind |-> "notjson", playerId |-> "absent", sessionToken |-> "absent"]
LoginBodies ==
    {NoLoginBody, [NoLoginBody EXCEPT !.kind = "nonobject"]}
    \cup {[kind |-> "object", playerId |-> p, sessionToken |-> t] :
            p \in {"absent", "null", PlayerId}, t \in {"absent", "null", SessionToken}}

NoLoginResponse == [transport |-> "none", http |-> 0, body |-> NoLoginBody]
LoginTransportFailure == [transport |-> "fail", http |-> 0, body |-> NoLoginBody]
LoginStatuses == {200, 401, 500}
LoginResponses ==
    {[transport |-> "ok", http |-> h, body |-> b] : h \in LoginStatuses, b \in LoginBodies}

\* dict.get(key): None for an absent key, and for a JSON null.
Get(value) == IF value \in {"absent", "null"} THEN PyNone ELSE value

\* response_data.keys() & {"playerId", "sessionToken"}: a non-empty intersection.
HasLoginKeys(body) == body.playerId # "absent" \/ body.sessionToken # "absent"

NoSession == [exists |-> FALSE, player_id |-> PyNone, session_token |-> PyNone]

\* The except clause of _login: e.response is None when no response was
\* obtained, so reading its status_code raises AttributeError.
LoginExcept(resp) ==
    IF resp.transport = "fail" THEN Raise("AttributeError", <<>>)
    ELSE IF resp.http >= 400 /\ resp.http < 500 THEN Raise("AuthError", <<resp.body>>)
    ELSE Raise("ConnectionError", <<>>)

\* SazkaClient._login: the outcome.  email_valid: the Login model accepts the
\* email (EmailStr).
LoginOutcome(email_valid, resp) ==
    IF ~email_valid THEN Raise("ValidationError", <<>>)
    ELSE IF resp.transport = "fail" THEN LoginExcept(resp)
    ELSE IF RaiseForStatus(resp).kind # "ok" THEN LoginExcept(resp)
    ELSE IF resp.body.kind = "notjson" THEN Raise("JSONDecodeError", <<>>)
    ELSE IF resp.body.kind = "nonobject" THEN Raise("AttributeError", <<>>)
    ELSE IF HasLoginKeys(resp.body) THEN Ok
    ELSE Raise("DataError", <<>>)

\* SazkaClient.__init__ / _login: the session attributes are set from the
\* response with dict.get.
Login(email_valid, resp) ==
    /\ ~session.exists
    /\ gpc = "idle"
    /\ lres' = LoginOutcome(email_valid, resp)
    /\ lresp' = IF email_valid THEN resp ELSE NoLoginResponse
    /\ session' = IF LoginOutcome(email_valid, resp).kind = "ok"
                  THEN [exists |-> TRUE,
                        player_id |-> Get(resp.body.playerId),
                        session_token |-> Get(resp.body.sessionToken)]
                  ELSE NoSession
    /\ UNCHANGED <<cookies, fres, gpc, marker, urls, idx, calendars, gres>>
    /\ UNCHANGED <<pvars, evars, mvars>>

\* ---- _get_url_content

NoCookies == [sent |-> FALSE, PlayerID |-> PyNone, SessionToken |-> PyNone]
FetchOutcomes == {"ok", "fail", "http_error"}

\* The cookies of the request _get_url_content sends, if it sends one.
RequestCookies(s) ==
    IF ~s.exists THEN NoCookies
    ELSE [sent |-> TRUE, PlayerID |-> s.player_id, SessionToken |-> s.session_token]

\* SazkaClient._get_url_content: the outcome.
GetUrlContent(s, outcome) ==
    IF ~s.exists THEN Raise("AuthError", <<>>)
    ELSE IF outcome # "ok" THEN Raise("ConnectionError", <<>>)
    ELSE Ok

\* ---- get_calendars

Pages == {"/bonusy/x", "/bonusy/y"}
UrlLists == SeqsUpTo(Pages, MaxUrls)

\* calendar = Calendar(): Calendar declares title, subtitle, text, url,
\* bonuses, start_datetime and end_datetime without defaults, so constructing
\* it without arguments raises pydantic's ValidationError.
NewCalendar == Raise("ValidationError", <<>>)

\* _get_bonus_urls, the first statement of get_calendars.
GetBonusUrls(outcome, links) ==
    /\ gpc = "idle"
    /\ cookies' = RequestCookies(session)
    /\ fres' = GetUrlContent(session, outcome)
    /\ IF GetUrlContent(session, outcome).kind = "ok"
       THEN /\ urls' = links
            /\ idx' = 1
            /\ calendars' = <<>>
            /\ gres' = NoResult
            /\ gpc' = "loop"
       ELSE /\ urls' = <<>>
            /\ idx' = 0
            /\ calendars' = <<>>
            /\ gres' = GetUrlContent(session, outcome)
            /\ gpc' = "done"
    /\ UNCHANGED <<session, lres, lresp, marker>>
    /\ UNCHANGED <<pvars, evars, mvars>>

\* One iteration of the loop of get_calendars.  Past Calendar() the body of
\* _get_calendar is not reached (SpecExtract models it).
VisitUrl(outcome) ==
    /\ gpc = "loop"
    /\ idx <= Len(urls)
    /\ cookies' = RequestCookies(session)
    /\ fres' = GetUrlContent(session, outcome)
    /\ IF GetUrlContent(session, outcome).kind # "ok"
       THEN /\ gres' = GetUrlContent(session, outcome)
            /\ gpc' = "done"
            /\ UNCHANGED <<idx, calendars>>
       ELSE IF ~marker[urls[idx]]
       THEN /\ idx' = idx + 1
            /\ UNCHANGED <<gres, gpc, calendars>>
       ELSE IF NewCalendar.kind # "ok"
       THEN /\ gres' = NewCalendar
            /\ gpc' = "done"
            /\ UNCHANGED <<idx, calendars>>
       ELSE /\ calendars' = Append(calendars, urls[idx])
            /\ idx' = idx + 1
            /\ UNCHANGED <<gres, gpc>>
    /\ UNCHANGED <<session, lres, lresp, marker, urls>>
    /\ UNCHANGED <<pvars, evars, mvars>>

\* return calendars
ReturnCalendars ==
    /\ gpc = "loop"
    /\ idx > Len(urls)
    /\ gres' = Ok
    /\ gpc' = "done"
    /\ UNCHANGED <<session, lres, lresp, cookies, fres, marker, urls, idx, calendars>>
    /\ UNCHANGED <<pvars, evars, mvars>>

SazkaInit ==
    /\ session = NoSession
    /\ lres = NoResult
    /\ lresp = NoLoginResponse
    /\ cookies = NoCookies
    /\ fres = NoResult
    /\ gpc = "idle"
    /\ marker \in [Pages -> BOOLEAN]
    /\ urls = <<>>
    /\ idx = 0
    /\ calendars = <<>>
    /\ gres = NoResult

SazkaNext ==
    \/ \E email_valid \in BOOLEAN : Login(email_valid, LoginTransportFailure)
    \/ \E email_valid \in BOOLEAN, resp \in LoginResponses : Login(email_valid, resp)
    \/ \E outcome \in FetchOutcomes, links \in UrlLists : GetBonusUrls(outcome, links)
    \/ \E outcome \in FetchOutcomes : VisitUrl(outcome)
    \/ ReturnCalendars

\* ---- _get_calendar_bonuses / _get_calendar

\* A datetime: a day and an hour of that day.
Hours == {0, 18}
Datetimes == {[day |-> d, hour |-> h] : d \in 1..MaxDay, h \in Hours}
Before(a, b) == a.day < b.day \/ (a.day = b.day /\ a.hour <= b.hour)

\* end_datetime.replace(hour=12, minute=0, second=0, microsecond=0)
ReplaceNoon(dt) == [dt EXCEPT !.hour = 12]

BonusIds == {1, 2}

\* An entry of the page-embedded bonus list: an empty object {}, or an object
\* with id, endDateTime and state.
EmptyEntry == [empty |-> TRUE, id |-> 0, endDateTime |-> [day |-> 0, hour |-> 0], state |-> 0]
Entries ==
    {EmptyEntry}
    \cup {[empty |-> FALSE, id |-> i, endDateTime |-> e, state |-> 1] :
            i \in BonusIds, e \in Datetimes}

\* A record of the popup feed; a button type is "" (null) or a type name.
ButtonTypes == {"", "link"}
Popups == {[id |-> i, leftButtonType |-> l, rightButtonType |-> r] :
             i \in BonusIds, l \in ButtonTypes, r \in ButtonTypes}

\* Bonus lists in which no two entries share an id.
BonusLists ==
    {data \in SeqsUpTo(Entries, MaxEntries) :
        \A i, j \in 1..Len(data) :
            (i # j /\ ~data[i].empty /\ ~data[j].empty) => data[i].id # data[j].id}

\* A calendar page: whether div#bonuses-grid is there, its bonus list, and
\* what fetching the popup feed yields.
CalendarPages ==
    [grid : BOOLEAN,
     bonuses_data : BonusLists,
     feed : FetchOutcomes,
     bonuses_popup_data : SeqsUpTo(Popups, MaxPopups)]

\* next((x for x in bonuses_popup_data if x.get("id") == bonus_data.get("id")), None)
\* as the index of the first match, 0 for None.  An empty entry has no id and
\* every popup record has one.
BonusPopup(bonus_data, popups) ==
    IF bonus_data.empty \/ ~\E j \in 1..Len(popups) : popups[j].id = bonus_data.id
    THEN 0
    ELSE CHOOSE j \in 1..Len(popups) :
           /\ popups[j].id = bonus_data.id
           /\ \A i \in 1..(j - 1) : popups[i].id # bonus_data.id

\* left_button / right_button: a CalendarBonusButton when the type is truthy.
Button(type) == IF type # "" THEN [present |-> TRUE, type |-> type]
                ELSE [present |-> FALSE, type |-> ""]

NoBonus == [id |-> 0, start_datetime |-> [day |-> 0, hour |-> 0],
            end_datetime |-> [day |-> 0, hour |-> 0], state |-> 0,
            left_button |-> Button(""), right_button |-> Button("")]

\* The body of the loop of _get_calendar_bonuses for one bonus_data: the test
\* is on bonus_data, and bonus_popup.get on None raises AttributeError.
BuildBonus(bonus_data, popups) ==
    LET j == BonusPopup(bonus_data, popups)
    IN  IF bonus_data.empty THEN [kind |-> "DataError", bonus |-> NoBonus]
        ELSE IF j = 0 THEN [kind |-> "AttributeError", bonus |-> NoBonus]
        ELSE [kind |-> "ok",
              bonus |-> [id |-> bonus_data.id,
                         start_datetime |-> ReplaceNoon(bonus_data.endDateTime),
                         end_datetime |-> bonus_data.endDateTime,
                         state |-> bonus_data.state,
                         left_button |-> Button(popups[j].leftButtonType),
                         right_button |-> Button(popups[j].rightButtonType)]]

\* The loop of _get_calendar_bonuses from entry i on, acc the bonuses so far.
RECURSIVE BuildBonuses(_, _, _, _)
BuildBonuses(data, popups, i, acc) ==
    IF i > Len(data) THEN [kind |-> "ok", bonuses |-> acc]
    ELSE IF BuildBonus(data[i], popups).kind # "ok"
    THEN [kind |-> BuildBonus(data[i], popups).kind, bonuses |-> <<>>]
    ELSE BuildBonuses(data, popups, i + 1, Append(acc, BuildBonus(data[i], popups).bonus))

\* SazkaClient._get_calendar_bonuses
GetCalendarBonuses(pg) ==
    IF ~pg.grid THEN [kind |-> "TypeError", bonuses |-> <<>>]
    ELSE IF pg.feed # "ok" THEN [kind |-> "ConnectionError", bonuses |-> <<>>]
    ELSE BuildBonuses(pg.bonuses_data, pg.bonuses_popup_data, 1, <<>>)

NoRange == [set |-> FALSE, start_datetime |-> [day |-> 0, hour |-> 0],
            end_datetime |-> [day |-> 0, hour |-> 0]]

\* calendar.start_datetime = calendar.bonuses[0].start_datetime
\* calendar.end_datetime = calendar.bonuses[-1].end_datetime
CalendarRange(bs) ==
    IF bs = <<>> THEN NoRange
    ELSE [set |-> TRUE, start_datetime |-> bs[1].start_datetime,
          end_datetime |-> bs[Len(bs)].end_datetime]

\* _get_calendar: calendar.bonuses = self._get_calendar_bonuses(soup)
ExtractBonuses ==
    /\ epc = "bonuses"
    /\ bonuses' = GetCalendarBonuses(page).bonuses
    /\ IF GetCalendarBonuses(page).kind = "ok"
       THEN /\ epc' = "range"
            /\ UNCHANGED eres
       ELSE /\ epc' = "done"
            /\ eres' = Raise(GetCalendarBonuses(page).kind, <<>>)
    /\ UNCHANGED <<page, calendar>>
    /\ UNCHANGED <<pvars, svars, mvars>>

\* _get_calendar: start_datetime and end_datetime, then return calendar.
\* bonuses[0] of an empty list raises IndexError.
DeriveRange ==
    /\ epc = "range"
    /\ calendar' = CalendarRange(bonuses)
    /\ eres' = IF bonuses = <<>> THEN Raise("IndexError", <<>>) ELSE Ok
    /\ epc' = "done"
    /\ UNCHANGED <<page, bonuses>>
    /\ UNCHANGED <<pvars, svars, mvars>>

ExtractInit ==
    /\ page \in CalendarPages
    /\ epc = "bonuses"
    /\ bonuses = <<>>
    /\ calendar = NoRange
    /\ eres = NoResult

ExtractNext == ExtractBonuses \/ DeriveRange

\* ================================================================ main.py

\* The fields class Config declares; attribute names are case-sensitive.
ConfigFields == {"SAZKA_EMAIL", "SAZKA_PASSWORD", "PUSHOVER_USER_KEY",
                 "PUSHOVER_API_TOKEN", "METADATA_FILEPATH"}

\* config.<name>
ConfigGet(name) ==
    IF name \in ConfigFields THEN Ok ELSE Raise("AttributeError", <<>>)

NoFile == [exists |-> FALSE, ids |-> <<>>]

\* get_notification_list: the outcome and the list returned.
GetNotificationList(f) ==
    IF ConfigGet("METADATA_FILEPATH").kind = "ok" /\ ~f.exists
    THEN [result |-> Ok, list |-> <<>>]
    ELSE IF ConfigGet("METADATA_FILEPATH").kind # "ok"
    THEN [result |-> ConfigGet("METADATA_FILEPATH"), list |-> <<>>]
    ELSE IF ConfigGet("metadata_filepath").kind # "ok"
    THEN [result |-> ConfigGet("metadata_filepath"), list |-> <<>>]
    ELSE [result |-> Ok, list |-> f.ids]

\* set_notification_list: the outcome and the file afterwards.  The path
\* expression is evaluated before open() is called.
SetNotificationList(f, list) ==
    IF ConfigGet("metadata_filepath").kind # "ok"
    THEN [result |-> ConfigGet("metadata_filepath"), file |-> f]
    ELSE [result |-> Ok, file |-> [exists |-> TRUE, ids |-> list]]

\* The bonuses of the calendars get_calendars hands to main: id and state.
MainBonuses == {[id |-> i, state |-> st] : i \in BonusIds, st \in {0, 1}}
\* The lists of at most n calendars get_calendars can hand to main.
MainCalendars(n) == SeqsUpTo(SeqsUpTo(MainBonuses, MaxBonuses), n)
GetCalendarsOutcomes == {"ok", "ConnectionError", "AuthError", "DataError"}
SendOutcomes == {"ok", "ApiError", "ConnectionError"}

\* any(notification.bonus_id == bonus.id for notification in notification_list)
AlreadyNotified(list, id) == \E i \in 1..Len(list) : list[i] = id

\* A run of main starts: notification_list = get_notification_list().
StartMain ==
    /\ mpc \in {"idle", "done", "aborted"}
    /\ run < MaxRuns
    /\ run' = run + 1
    /\ notification_list' = GetNotificationList(file).list
    /\ mainres' = IF GetNotificationList(file).result.kind = "ok" THEN mainres
                  ELSE GetNotificationList(file).result
    /\ mpc' = IF GetNotificationList(file).result.kind = "ok" THEN "calendars" ELSE "aborted"
    /\ mcalendars' = <<>>
    /\ ci' = 0
    /\ bi' = 0
    /\ UNCHANGED <<file, sends>>
    /\ UNCHANGED <<pvars, svars, evars>>

\* calendars = sazka_client.get_calendars()
CallGetCalendars(outcome, cals) ==
    /\ mpc = "calendars"
    /\ IF outcome = "ok"
       THEN /\ mcalendars' = cals
            /\ ci' = 1
            /\ bi' = 1
            /\ mpc' = "loop"
            /\ UNCHANGED mainres
       ELSE /\ mainres' = Raise(outcome, <<>>)
            /\ mpc' = "aborted"
            /\ UNCHANGED <<mcalendars, ci, bi>>
    /\ UNCHANGED <<file, notification_list, run, sends>>
    /\ UNCHANGED <<pvars, svars, evars>>

\* One bonus of calendar.bonuses: the state filter, the scan of
\* notification_list, Message(...), send_message, the append.  fits: the
\* Message built from the titles and text satisfies its length constraints.
ProcessBonus(fits, outcome) ==
    /\ mpc = "loop"
    /\ ci <= Len(mcalendars)
    /\ bi <= Len(mcalendars[ci])
    /\ LET bonus == mcalendars[ci][bi]
       IN  IF bonus.state # 1 \/ AlreadyNotified(notification_list, bonus.id)
           THEN /\ bi' = bi + 1
                /\ UNCHANGED <<notification_list, mpc, mainres, sends>>
           ELSE IF ~fits
           THEN /\ mainres' = Raise("ValidationError", <<>>)
                /\ mpc' = "aborted"
                /\ UNCHANGED <<notification_list, bi, sends>>
           ELSE IF outcome # "ok"
           THEN /\ mainres' = Raise(outcome, <<>>)
                /\ mpc' = "aborted"
                /\ UNCHANGED <<notification_list, bi, sends>>
           ELSE /\ sends' = [sends EXCEPT ![bonus.id] = @ + 1]
                /\ notification_list' = Append(notification_list, bonus.id)
                /\ bi' = bi + 1
                /\ UNCHANGED <<mpc, mainres>>
    /\ UNCHANGED <<file, mcalendars, ci, run>>
    /\ UNCHANGED <<pvars, svars, evars>>

\* for calendar in calendars: the next calendar.
NextCalendar ==
    /\ mpc = "loop"
    /\ ci <= Len(mcalendars)
    /\ bi > Len(mcalendars[ci])
    /\ ci' = ci + 1
    /\ bi' = 1
    /\ UNCHANGED <<file, notification_list, mcalendars, mpc, mainres, run, sends>>
    /\ UNCHANGED <<pvars, svars, evars>>

\* set_notification_list(notification_list), after the loop.
SaveList ==
    /\ mpc = "loop"
    /\ ci > Len(mcalendars)
    /\ file' = SetNotificationList(file, notification_list).file
    /\ mainres' = IF SetNotificationList(file, notification_list).result.kind = "ok"
                  THEN NoResult
                  ELSE SetNotificationList(file, notification_list).result
    /\ mpc' = IF SetNotificationList(file, notification_list).result.kind = "ok"
              THEN "done" ELSE "aborted"
    /\ UNCHANGED <<notification_list, mcalendars, ci, bi, run, sends>>
    /\ UNCHANGED <<pvars, svars, evars>>

MainInit ==
    /\ file \in {NoFile, [exists |-> TRUE, ids |-> <<1>>]}
    /\ notification_list = <<>>
    /\ mcalendars = <<>>
    /\ ci = 0
    /\ bi = 0
    /\ mpc = "idle"
    /\ mainres = NoResult
    /\ run = 0
    /\ sends = [i \in BonusIds |-> 0]

MainNext ==
    \/ StartMain
    \/ /\ mpc = "calendars"
       /\ \E outcome \in GetCalendarsOutcomes, cals \in MainCalendars(MaxCalendars) :
            CallGetCalendars(outcome, cals)
    \/ \E fits \in BOOLEAN, outcome \in SendOutcomes : ProcessBonus(fits, outcome)
    \/ NextCalendar
    \/ SaveList

\* ======================================================== specifications

SazkaIdle == SazkaInit /\ marker = [p \in Pages |-> FALSE]
ExtractIdle ==
    /\ page = [grid |-> FALSE, bonuses_data |-> <<>>, feed |-> "ok",
               bonuses_popup_data |-> <<>>]
    /\ epc = "bonuses"
    /\ bonuses = <<>>
    /\ calendar = NoRange
    /\ eres = NoResult
MainIdle == MainInit /\ file = NoFile

InitPushover == PushoverInit /\ SazkaIdle /\ ExtractIdle /\ MainIdle
InitSazka == PushoverInit /\ SazkaInit /\ ExtractIdle /\ MainIdle
InitExtract == PushoverInit /\ SazkaIdle /\ ExtractInit /\ MainIdle
InitMain == PushoverInit /\ SazkaIdle /\ ExtractIdle /\ MainInit

SpecPushover == InitPushover /\ [][PushoverNext]_vars
SpecSazka == InitSazka /\ [][SazkaNext]_vars
SpecExtract == InitExtract /\ [][ExtractNext]_vars
SpecMain == InitMain /\ [][MainNext]_vars

\* ================================================================ claims

\* The status flag _validate_response reads: content.get("status", 0).
StatusFlag(body) == IF body.hasStatus THEN body.status ELSE 0

\* m is e with its first character upper-cased and the others lower-cased.
IsCapitalized(m, e) ==
    /\ Len(m) = Len(e)
    /\ \A i \in 1..Len(e) : m[i] = IF i = 1 THEN Upper(e[i]) ELSE Lower(e[i])

\* The validation endpoint answered, with a JSON object of status flag 0.
Rejected ==
    /\ vresp.transport = "ok"
    /\ vresp.body.kind = "object"
    /\ vresp.body.hasStatus
    /\ vresp.body.status = 0

\* C2: when the validation response body reports status flag 0, construction
\* fails with AuthError carrying the first reported error message capitalized
\* (str.capitalize), and no client exists; a client exists only after a
\* response that reported a non-zero status flag, and only an existing client
\* ever posts a message.
C2_RejectedPairFailsWithAuthError ==
    /\ Rejected =>
         /\ pres.kind = "AuthError"
         /\ vresp.body.errors # <<>> => IsCapitalized(pres.msg, Head(vresp.body.errors))
         /\ ~pclient.ready
         /\ ~sent.posted
    /\ pclient.ready =>
         /\ vresp.transport = "ok"
         /\ vresp.body.kind = "object"
         /\ StatusFlag(vresp.body) # 0
    /\ sent.posted => pclient.ready

\* C2 witness: an HTTP 400 answer of status flag 0 reporting two errors was
\* turned into AuthError.
C2_Witness ==
    /\ Rejected
    /\ vresp.http = 400
    /\ vresp.body.errors = <<<<"u", "K">>, <<"T", "o">>>>
    /\ pres = Raise("AuthError", <<"U", "k">>)

\* C3: every payload posted to the messages endpoint carries the token and the
\* user key the client was constructed with, whatever the Message held.
C3_PayloadCarriesClientCredentials ==
    sent.posted => /\ sent.token = pclient.api_token
                   /\ sent.user = pclient.user_key

\* C3 witness: a Message whose caller had set another token and another user
\* key was posted.
C3_Witness ==
    /\ sent.posted
    /\ sent.given_token = Secret(TokenB)
    /\ sent.given_user = Secret(UserB)
    /\ pclient.api_token = TokenA

\* C4: no payload posted by send_message has html and monospace both 1.
C4_FlagsNeverBothSent ==
    sent.posted => ~(sent.html = 1 /\ sent.monospace = 1)

MarkerUrls == SelectSeq(urls, LAMBDA u : marker[u])

\* C5: on an authenticated client whose fetches all succeed, get_calendars
\* returns one Calendar for each discovered url whose page holds the marker,
\* in discovery order, each with its url.
C5_OneCalendarPerMarkerPage ==
    (gpc = "done" /\ session.exists /\ gres.kind # "ConnectionError")
        => /\ gres.kind = "ok"
           /\ calendars = MarkerUrls

\* Both keys of the login response carried a value.
SuppliedBoth(body) ==
    /\ body.kind = "object"
    /\ body.playerId \notin {"absent", "null"}
    /\ body.sessionToken \notin {"absent", "null"}

\* C7: every failure of login is one of the client's own errors: a transport
\* failure is ConnectionError, a 4xx response AuthError carrying the body, any
\* other non-2xx response ConnectionError, a 2xx response without the expected
\* keys DataError; nothing else escapes.
C7_LoginErrorsClassified ==
    lresp.transport # "none" =>
        /\ lresp.transport = "fail" => lres.kind = "ConnectionError"
        /\ (lresp.transport = "ok" /\ lresp.http \in 400..499)
             => lres = Raise("AuthError", <<lresp.body>>)
        /\ (lresp.transport = "ok" /\ lresp.http \notin 200..299 /\ lresp.http \notin 400..499)
             => lres.kind = "ConnectionError"
        /\ ( /\ lresp.transport = "ok"
             /\ lresp.http \in 200..299
             /\ lresp.body.kind = "object"
             /\ ~HasLoginKeys(lresp.body) ) => lres.kind = "DataError"
        /\ lres.kind \in {"ok", "ConnectionError", "AuthError", "DataError"}

\* C10: session state exists only after a login response that supplied both a
\* player id and a session token, every page request carries those two values
\* as cookies, neither of them None, and a fetch without session state fails
\* with AuthError without sending a request.
C10_RequestsCarryCompleteSession ==
    /\ session.exists =>
         /\ SuppliedBoth(lresp.body)
         /\ session.player_id = lresp.body.playerId
         /\ session.session_token = lresp.body.sessionToken
    /\ cookies.sent =>
         /\ cookies.PlayerID = session.player_id
         /\ cookies.SessionToken = session.session_token
         /\ cookies.PlayerID # PyNone
         /\ cookies.SessionToken # PyNone
    /\ (~session.exists /\ fres.kind # "none") =>
         /\ fres.kind = "AuthError"
         /\ ~cookies.sent

\* Some entry of the embedded bonus list has an id no popup record has.
UnmatchedEntry ==
    \E i \in 1..Len(page.bonuses_data) :
        /\ ~page.bonuses_data[i].empty
        /\ \A j \in 1..Len(page.bonuses_popup_data) :
               page.bonuses_popup_data[j].id # page.bonuses_data[i].id

\* C6: when some entry of the embedded bonus list has an id without a popup
\* record of the same id, the extraction fails with DataError, and no bonus is
\* built from such an entry.
C6_UnmatchedEntryIsDataError ==
    /\ (epc # "bonuses" /\ page.grid /\ page.feed = "ok" /\ UnmatchedEntry)
         => eres.kind = "DataError"
    /\ \A i \in 1..Len(bonuses) :
         \E j \in 1..Len(page.bonuses_popup_data) :
             page.bonuses_popup_data[j].id = bonuses[i].id

====
